---------------------------- MODULE Spec2Model ----------------------------
(***************************************************************************)
(* ryan-test/gauss.c: gauss_ref (recursive) and gauss_closed (closed       *)
(* form), modelled as C functions over 32-bit signed `int`.                *)
(*                                                                         *)
(* A call is executed by a thread on its own call stack.  Every thread has *)
(* a stack of frames; a frame holds the parameter n, the position inside   *)
(* the function body and the one temporary the body needs.  Signed         *)
(* overflow is undefined behaviour in C: the model offers both outcomes a  *)
(* build produces (two's-complement wraparound, or a trap as with -ftrapv) *)
(* and records in `ub` that the call has left defined behaviour.           *)
(***************************************************************************)
EXTENDS Integers, Sequences, FiniteSets

(* ------------------------------ bounds -------------------------------- *)

\* Threads that may run calls side by side.
NThreads == 2
\* gauss_ref is called with -MaxRefNeg..MaxRefN (and the two smallest ints).
MaxRefN == 40
MaxRefNeg == 3
\* The call stack holds at most MaxDepth frames (the cap on the recursion).
MaxDepth == 44
\* gauss_closed is called with -MaxClosedN..MaxClosedN (and INT_MIN, INT_MAX).
MaxClosedN == 65536
\* Arguments of the calls that run side by side.
MaxConcN == 3

(* ------------------------- exact integers ----------------------------- *)
(* The model checker's own integers are 32 bits wide, so the exact value   *)
(* of an int expression (n * (n + 1) reaches 2^62) is kept as four limbs   *)
(* <<l0, l1, l2, l3>> standing for l0 + l1*2^16 + l2*2^32 + l3*2^48, with  *)
(* l0, l1, l2 in 0..2^16-1 and the sign carried by l3.                     *)

LimbBase == 2^16

\* `e` evaluated once and named v: operators below write
\* Only({ f(v) : v \in {e} }) for f(e), so that an argument that is itself a
\* long computation is not computed again at each of its uses.
Only(S) == CHOOSE r \in S : TRUE

NormLimbs(a) ==
  LET s1 == a[2] + (a[1] \div LimbBase)
      s2 == a[3] + (s1 \div LimbBase)
      s3 == a[4] + (s2 \div LimbBase)
  IN  <<a[1] % LimbBase, s1 % LimbBase, s2 % LimbBase, s3>>

\* Carries propagated: the limbs of the value a stands for.
WNorm(a) == Only({ NormLimbs(v) : v \in {a} })

WFromInt(n) == WNorm(<<n, 0, 0, 0>>)

WAdd(x, y) ==
  Only({ WNorm(<<v[1] + w[1], v[2] + w[2], v[3] + w[3], v[4] + w[4]>>) :
           v \in {x}, w \in {y} })

WNeg(x) == Only({ WNorm(<<-v[1], -v[2], -v[3], -v[4]>>) : v \in {x} })

WSub(x, y) == WAdd(x, WNeg(y))

WLeq(x, y) == WSub(y, x)[4] >= 0

\* The exact product of x and a small integer k (|k| <= 2^8).
WScale(x, k) ==
  Only({ WNorm(<<v[1] * k, v[2] * k, v[3] * k, v[4] * k>>) : v \in {x} })

\* The exact product of x and the integer b, by the bytes of b (the top
\* byte carries the sign): x*b0 + 2^8 * (x*b1 + 2^8 * (x*b2 + 2^8 * x*b3)).
WMulInt(x, b) ==
  Only({ WAdd(WScale(v, b % 256),
              WScale(WAdd(WScale(v, (b \div 256) % 256),
                          WScale(WAdd(WScale(v, (b \div 65536) % 256),
                                      WScale(WScale(v, b \div 16777216), 256)),
                                 256)),
                     256)) : v \in {x} })

HalfLimbs(x) ==
  LET q3 == x[4] \div 2
      t2 == (x[4] % 2) * LimbBase + x[3]
      t1 == (t2 % 2) * LimbBase + x[2]
      t0 == (t1 % 2) * LimbBase + x[1]
      floor == <<t0 \div 2, t1 \div 2, t2 \div 2, q3>>
  IN  IF x[4] < 0 /\ t0 % 2 = 1 THEN WAdd(floor, WFromInt(1)) ELSE floor

\* x / 2 truncated toward zero.
WTruncHalf(x) == Only({ HalfLimbs(v) : v \in {x} })

(* --------------------------- the type `int` --------------------------- *)

\* `int` is the 32-bit signed integer type.
INT_MAX == 2147483647

INT_MIN == -INT_MAX - 1

InUnsigned(x) == \E v \in {x} : v[3] = 0 /\ v[4] = 0

\* Whether the exact value x is representable in `int`.
InInt(x) ==
  \E v \in {x} : WLeq(WFromInt(INT_MIN), v) /\ WLeq(v, WFromInt(INT_MAX))

\* The low 32 bits of x read as a two's-complement int.
Low32(x) ==
  Only({ (IF v[2] >= LimbBase \div 2 THEN v[2] - LimbBase ELSE v[2]) * LimbBase + v[1] :
           v \in {x} })

Saturate32(x) ==
  Only({ IF InInt(v) THEN Low32(v) ELSE IF v[4] < 0 THEN INT_MIN ELSE INT_MAX :
           v \in {x} })

\* The int a 32-bit register keeps of the exact result x: x itself when it
\* is representable, x modulo 2^32 otherwise.
Wrap32(x) == Low32(x)

\* C's `/` on ints: the quotient truncated toward zero (b > 0 here).
TruncDiv(a, b) == IF a % b = 0 \/ a >= 0 THEN a \div b ELSE (a \div b) + 1

\* What evaluating an int expression whose exact value is x can do: the value
\* itself when it is representable; otherwise (signed overflow, undefined
\* behaviour) the wrapped value or a trap.
Outcomes(x) ==
  UNION { IF InInt(v)
            THEN {[val |-> Wrap32(v), ub |-> FALSE, trap |-> FALSE]}
            ELSE {[val |-> Wrap32(v), ub |-> TRUE, trap |-> FALSE],
                  [val |-> 0, ub |-> TRUE, trap |-> TRUE]} : v \in {x} }

(* ------------------------ the bodies' expressions ---------------------- *)

IsBaseLoose(n) == n <= 1

\* gauss_ref: `if (n == 1)`
IsBase(n) == n = 1

BaseValueZero == 0 * 1

\* gauss_ref: `return 1;`
BaseValue == 1

RefNextArgSkip(n) == WSub(WFromInt(n), WFromInt(2))

\* gauss_ref: the argument of the recursive call, `n-1` (its exact value)
RefNextArg(n) == WSub(WFromInt(n), WFromInt(1))

RefStepValueSum(n, v) == WAdd(WFromInt(v), WFromInt(n))

\* gauss_ref: `gauss_ref(n-1) + 1`, v being what the recursive call returned
RefStepValue(n, v) == WAdd(WFromInt(v), WFromInt(1))

ClosedSuccPred(n) == WSub(WFromInt(n), WFromInt(1))

\* gauss_closed: `(n + 1)` (its exact value)
ClosedSucc(n) == WAdd(WFromInt(n), WFromInt(1))

ClosedProductSquare(n, m) == WMulInt(WFromInt(n), n)

\* gauss_closed: `n * (n + 1)`, m being the value of (n + 1)
ClosedProduct(n, m) == WMulInt(WFromInt(n), m)

\* gauss_closed: `... /2`, p being the value of the product
ClosedHalf(p) == TruncDiv(p, 2)

(* ----------------------- the functions as operators -------------------- *)

RECURSIVE gauss_ref(_)
\* gauss_ref as a build with wraparound arithmetic computes it (n >= 1).
gauss_ref(n) ==
  IF IsBase(n) THEN BaseValue
  ELSE Only({ Wrap32(RefStepValue(n, r)) : r \in {gauss_ref(Wrap32(RefNextArg(n)))} })

\* gauss_closed as a build with wraparound arithmetic computes it.
gauss_closed(n) == ClosedHalf(Wrap32(ClosedProduct(n, Wrap32(ClosedSucc(n)))))

\* Whether evaluating gauss_closed(n) overflows `int` somewhere.
ClosedOverflows(n) ==
  \/ ~InInt(ClosedSucc(n))
  \/ ~InInt(ClosedProduct(n, Wrap32(ClosedSucc(n))))

(* ------------------------------- state -------------------------------- *)

VARIABLES
  pc,        \* per thread: "idle", "running", "returned" or "trapped"
  fn,        \* per thread: the function called
  arg,       \* per thread: the argument of the call
  stack,     \* per thread: the call stack, innermost frame last
  ret,       \* per thread: the value returned to the caller
  ub,        \* per thread: the call has executed a signed overflow
  calls,     \* per thread: recursive calls made so far
  maxDepth   \* per thread: the largest number of frames the stack has held

vars == <<pc, fn, arg, stack, ret, ub, calls, maxDepth>>

Threads == 1..NThreads

\* The thread of a single-threaded run: the first one.
Main == CHOOSE t \in Threads : \A u \in Threads : t <= u

RefInputs == (-MaxRefNeg..MaxRefN) \cup {INT_MIN, INT_MIN + 1}

ClosedInputs == (-MaxClosedN..MaxClosedN) \cup {INT_MIN, INT_MAX}

ConcRefInputs == 1..MaxConcN

ConcClosedInputs == -MaxConcN..MaxConcN

Frame(n, at) == [n |-> n, at |-> at, tmp |-> 0]

Top(t) == stack[t][Len(stack[t])]

Max(a, b) == IF a >= b THEN a ELSE b

Init ==
  /\ pc = [t \in Threads |-> "idle"]
  /\ fn = [t \in Threads |-> "none"]
  /\ arg = [t \in Threads |-> 0]
  /\ stack = [t \in Threads |-> <<>>]
  /\ ret = [t \in Threads |-> 0]
  /\ ub = [t \in Threads |-> FALSE]
  /\ calls = [t \in Threads |-> 0]
  /\ maxDepth = [t \in Threads |-> 0]

(* ------------------------------ actions ------------------------------- *)

StoreResultShared(t, v) == [u \in Threads |-> v]

\* A `return v;` hands v to the caller of the call thread t runs.
StoreResult(t, v) == [ret EXCEPT ![t] = v]

\* Thread t calls gauss_ref(n), n any of `inputs`.
CallRef(t, inputs) ==
  /\ pc[t] = "idle"
  /\ \E n \in inputs :
       /\ arg' = [arg EXCEPT ![t] = n]
       /\ stack' = [stack EXCEPT ![t] = <<Frame(n, "test")>>]
  /\ pc' = [pc EXCEPT ![t] = "running"]
  /\ fn' = [fn EXCEPT ![t] = "gauss_ref"]
  /\ maxDepth' = [maxDepth EXCEPT ![t] = 1]
  /\ UNCHANGED <<ret, ub, calls>>

\* Thread t calls gauss_closed(n), n any of `inputs`.
CallClosed(t, inputs) ==
  /\ pc[t] = "idle"
  /\ \E n \in inputs :
       /\ arg' = [arg EXCEPT ![t] = n]
       /\ stack' = [stack EXCEPT ![t] = <<Frame(n, "add")>>]
  /\ pc' = [pc EXCEPT ![t] = "running"]
  /\ fn' = [fn EXCEPT ![t] = "gauss_closed"]
  /\ maxDepth' = [maxDepth EXCEPT ![t] = 1]
  /\ UNCHANGED <<ret, ub, calls>>

\* The innermost frame of thread t returns v: to the frame below, which goes
\* on after its call, or, from the outermost frame, to the caller.
Return(t, v) ==
  IF Len(stack[t]) = 1
    THEN /\ stack' = [stack EXCEPT ![t] = <<>>]
         /\ ret' = StoreResult(t, v)
         /\ pc' = [pc EXCEPT ![t] = "returned"]
    ELSE /\ stack' = [stack EXCEPT ![t] =
                        [SubSeq(@, 1, Len(@) - 1) EXCEPT ![Len(@) - 1] =
                            [@ EXCEPT !.tmp = v, !.at = "resume"]]]
         /\ UNCHANGED <<ret, pc>>

\* gauss_ref, `if (n == 1) return 1;`
RefBase(t) ==
  /\ pc[t] = "running"
  /\ fn[t] = "gauss_ref"
  /\ Top(t).at = "test"
  /\ IsBase(Top(t).n)
  /\ Return(t, BaseValue)
  /\ UNCHANGED <<fn, arg, ub, calls, maxDepth>>

\* gauss_ref, n # 1: evaluate n-1 and call gauss_ref on it.
RefRecurse(t) ==
  /\ pc[t] = "running"
  /\ fn[t] = "gauss_ref"
  /\ Top(t).at = "test"
  /\ ~IsBase(Top(t).n)
  /\ Len(stack[t]) < MaxDepth
  /\ \E o \in Outcomes(RefNextArg(Top(t).n)) :
       /\ ub' = [ub EXCEPT ![t] = @ \/ o.ub]
       /\ IF o.trap
            THEN /\ pc' = [pc EXCEPT ![t] = "trapped"]
                 /\ UNCHANGED <<stack, calls, maxDepth>>
            ELSE /\ stack' = [stack EXCEPT ![t] =
                                Append([@ EXCEPT ![Len(@)].at = "await"],
                                       Frame(o.val, "test"))]
                 /\ calls' = [calls EXCEPT ![t] = @ + 1]
                 /\ maxDepth' = [maxDepth EXCEPT ![t] = Max(@, Len(stack[t]) + 1)]
                 /\ UNCHANGED pc
  /\ UNCHANGED <<fn, arg, ret>>

\* gauss_ref, after the recursive call returned: `return <its value> + 1;`
RefResume(t) ==
  /\ pc[t] = "running"
  /\ fn[t] = "gauss_ref"
  /\ Top(t).at = "resume"
  /\ \E o \in Outcomes(RefStepValue(Top(t).n, Top(t).tmp)) :
       /\ ub' = [ub EXCEPT ![t] = @ \/ o.ub]
       /\ IF o.trap
            THEN /\ pc' = [pc EXCEPT ![t] = "trapped"]
                 /\ UNCHANGED <<stack, ret>>
            ELSE Return(t, o.val)
  /\ UNCHANGED <<fn, arg, calls, maxDepth>>

\* One int operation of gauss_closed's expression: its outcome goes to the
\* frame's temporary and the frame moves on to position `next`.
ClosedEval(t, x, next) ==
  \E o \in Outcomes(x) :
    /\ ub' = [ub EXCEPT ![t] = @ \/ o.ub]
    /\ IF o.trap
         THEN /\ pc' = [pc EXCEPT ![t] = "trapped"]
              /\ UNCHANGED stack
         ELSE /\ stack' = [stack EXCEPT ![t] =
                             [@ EXCEPT ![Len(@)] = [@ EXCEPT !.tmp = o.val, !.at = next]]]
              /\ UNCHANGED pc

\* gauss_closed, `(n + 1)`
ClosedAdd(t) ==
  /\ pc[t] = "running"
  /\ fn[t] = "gauss_closed"
  /\ Top(t).at = "add"
  /\ ClosedEval(t, ClosedSucc(Top(t).n), "mul")
  /\ UNCHANGED <<fn, arg, ret, calls, maxDepth>>

\* gauss_closed, `n * (n + 1)`
ClosedMul(t) ==
  /\ pc[t] = "running"
  /\ fn[t] = "gauss_closed"
  /\ Top(t).at = "mul"
  /\ ClosedEval(t, ClosedProduct(Top(t).n, Top(t).tmp), "div")
  /\ UNCHANGED <<fn, arg, ret, calls, maxDepth>>

\* gauss_closed, `return ... /2;`
ClosedDiv(t) ==
  /\ pc[t] = "running"
  /\ fn[t] = "gauss_closed"
  /\ Top(t).at = "div"
  /\ Return(t, ClosedHalf(Top(t).tmp))
  /\ UNCHANGED <<fn, arg, ub, calls, maxDepth>>

(* --------------------------- specifications --------------------------- *)

\* One call of either function, run by the main thread.
Next ==
  \/ CallRef(Main, RefInputs)
  \/ CallClosed(Main, ClosedInputs)
  \/ RefBase(Main)
  \/ RefRecurse(Main)
  \/ RefResume(Main)
  \/ ClosedAdd(Main)
  \/ ClosedMul(Main)
  \/ ClosedDiv(Main)

Spec == Init /\ [][Next]_vars

\* One call of gauss_ref; a call that can take a step eventually takes it.
RefNext ==
  \/ CallRef(Main, RefInputs)
  \/ RefBase(Main)
  \/ RefRecurse(Main)
  \/ RefResume(Main)

RefSpec == Init /\ [][RefNext]_vars /\ WF_vars(RefNext)

\* Every thread runs one call; the threads' steps interleave freely.
ConcNext ==
  \E t \in Threads :
    \/ CallRef(t, ConcRefInputs)
    \/ CallClosed(t, ConcClosedInputs)
    \/ RefBase(t)
    \/ RefRecurse(t)
    \/ RefResume(t)
    \/ ClosedAdd(t)
    \/ ClosedMul(t)
    \/ ClosedDiv(t)

ConcSpec == Init /\ [][ConcNext]_vars

(* ------------------------- what a port may do -------------------------- *)

\* gaussClosedForm with the intermediate widened to 64 bits and the quotient
\* narrowed to the 32-bit result type.
gaussClosedFormWidened(n) ==
  Wrap32(WTruncHalf(WMulInt(WAdd(WFromInt(n), WFromInt(1)), n)))

(* ------------------------------ properties ---------------------------- *)

Returned(t, f) == pc[t] = "returned" /\ fn[t] = f

RECURSIVE SumRange(_, _)
\* a + (a+1) + ... + b, every term added, the range halved at each level so
\* that the nesting stays logarithmic in the number of terms.
SumRange(a, b) ==
  IF a > b THEN 0
  ELSE IF a = b THEN a
  ELSE SumRange(a, (a + b) \div 2) + SumRange((a + b) \div 2 + 1, b)

\* 1 + 2 + ... + n, summed term by term.
SumTo(n) == SumRange(1, n)

\* n(n+1)/2 for 0 <= n <= 65535, formed without the product n(n+1).
Triangular(n) == IF n % 2 = 0 THEN (n \div 2) * (n + 1) ELSE n * ((n + 1) \div 2)

\* What a call returns when it is the only call running.
RunAlone(f, n) == IF f = "gauss_ref" THEN gauss_ref(n) ELSE gauss_closed(n)

\* The frames of thread t are those of its own call of gauss_ref: the
\* arguments arg, arg-1, arg-2, ... from the outermost frame inwards.
OwnRefFrames(t) ==
  \A i \in 1..Len(stack[t]) : stack[t][i].n = arg[t] - (i - 1)

\* C1: for every n in 0..1000 gauss_closed(n) returns, without overflow, the
\* sum 1 + 2 + ... + n; so gauss_closed(0) = 0, gauss_closed(1) = 1,
\* gauss_closed(2) = 3, gauss_closed(5) = 15, gauss_closed(10) = 55.
C1_ClosedIsSum ==
  (fn[Main] = "gauss_closed" /\ arg[Main] \in 0..1000) =>
     /\ ~ub[Main]
     /\ pc[Main] # "trapped"
     /\ pc[Main] = "returned" =>
          /\ ret[Main] = SumTo(arg[Main])
          /\ arg[Main] = 0 => ret[Main] = 0
          /\ arg[Main] = 1 => ret[Main] = 1
          /\ arg[Main] = 2 => ret[Main] = 3
          /\ arg[Main] = 5 => ret[Main] = 15
          /\ arg[Main] = 10 => ret[Main] = 55

C1_Witness == Returned(Main, "gauss_closed") /\ arg[Main] = 1000 /\ ret[Main] = 500500

\* C2: both functions return the sum 1 + 2 + ... + n for every n >= 1 (n up
\* to 1000, where nothing overflows).
C2_BothComputeSum ==
  (pc[Main] = "returned" /\ arg[Main] \in 1..1000) => ret[Main] = SumTo(arg[Main])

\* C3: for every n >= 1 gauss_ref(n) returns n; gauss_ref(1) = 1 and
\* gauss_ref(5) = 5.
C3_RefReturnsN ==
  (Returned(Main, "gauss_ref") /\ arg[Main] >= 1) =>
     /\ ret[Main] = arg[Main]
     /\ arg[Main] = 1 => ret[Main] = 1
     /\ arg[Main] = 5 => ret[Main] = 5

C3_Witness == Returned(Main, "gauss_ref") /\ arg[Main] = 5 /\ ret[Main] = 5

\* C4: for n >= 1 where gauss_closed(n) does not overflow, what gauss_ref(n)
\* returns equals what gauss_closed(n) returns exactly when n = 1.
C4_RefDiffersFromClosed ==
  /\ (Returned(Main, "gauss_ref") /\ arg[Main] >= 1 /\ ~ClosedOverflows(arg[Main])) =>
        (ret[Main] = gauss_closed(arg[Main]) <=> arg[Main] = 1)
  /\ (Returned(Main, "gauss_closed") /\ arg[Main] \in 1..MaxRefN /\ ~ub[Main]) =>
        (ret[Main] = gauss_ref(arg[Main]) <=> arg[Main] = 1)

C4_Witness ==
  /\ Returned(Main, "gauss_ref") /\ arg[Main] = 2 /\ ret[Main] = 2
  /\ gauss_closed(2) = 3

\* C5: a call gauss_ref(n) with n <= 0 never returns as long as n-1 is exact
\* (no overflow): its frames hold n, n-1, n-2, ..., none of them the base
\* case 1, every frame but the innermost waits for its recursive call, and
\* the innermost is about to recurse again.
C5_NoReturnForNonPositive ==
  (fn[Main] = "gauss_ref" /\ arg[Main] <= 0 /\ ~ub[Main]) =>
     /\ pc[Main] = "running"
     /\ Len(stack[Main]) >= 1
     /\ OwnRefFrames(Main)
     /\ \A i \in 1..Len(stack[Main]) :
          /\ ~IsBase(stack[Main][i].n)
          /\ stack[Main][i].at = (IF i < Len(stack[Main]) THEN "await" ELSE "test")
     /\ calls[Main] = Len(stack[Main]) - 1

C5_Witness ==
  /\ fn[Main] = "gauss_ref" /\ arg[Main] = 0 /\ ~ub[Main]
  /\ pc[Main] = "running"
  /\ Len(stack[Main]) = MaxDepth
  /\ Top(Main).n = -(MaxDepth - 1)

\* C6 as stated: n * (n + 1) stays within signed 32 bits for every n in
\* 0..65535, and gauss_closed(n) is the exact n(n+1)/2 there.
C6_NoOverflowUpTo65535 ==
  (fn[Main] = "gauss_closed" /\ arg[Main] \in 0..65535) =>
     /\ ~ub[Main]
     /\ pc[Main] = "returned" => ret[Main] = Triangular(arg[Main])

\* C6 amended: n * (n + 1) stays within signed 32 bits exactly for n in
\* 0..46340 among n >= 0: there gauss_closed(n) is the exact n(n+1)/2, and
\* for every n above 46340 the call overflows.
C6_OverflowAbove46340 ==
  (fn[Main] = "gauss_closed" /\ arg[Main] >= 0) =>
     /\ arg[Main] <= 46340 =>
          /\ ~ub[Main]
          /\ pc[Main] # "trapped"
          /\ pc[Main] = "returned" => ret[Main] = Triangular(arg[Main])
     /\ (arg[Main] > 46340 /\ pc[Main] \in {"returned", "trapped"}) => ub[Main]

C6_Witness ==
  /\ Returned(Main, "gauss_closed") /\ arg[Main] = 46341 /\ ub[Main]
  /\ ret[Main] = -1073716337

\* 2147516416 = INT_MAX + 32769, as an exact integer.
V2147516416 == WAdd(WFromInt(INT_MAX), WFromInt(32769))

C8_ClosedOnNegatives ==
  (Returned(Main, "gauss_closed") /\ ~ub[Main]) =>
     /\ ret[Main] >= 0
     /\ WAdd(WFromInt(ret[Main]), WFromInt(ret[Main]))
           = WMulInt(WFromInt(arg[Main]), arg[Main] + 1)
     /\ ~ClosedOverflows(-arg[Main] - 1)
     /\ gauss_closed(-arg[Main] - 1) = ret[Main]
     /\ arg[Main] = -1 => ret[Main] = 0
     /\ arg[Main] = -2 => ret[Main] = 1

C8_Witness == Returned(Main, "gauss_closed") /\ arg[Main] = -2 /\ ret[Main] = 1 /\ ~ub[Main]

\* C9: with the threads' steps interleaved in any order, every call returns
\* what it returns when run alone, every stack holds only frames of its own
\* call, and a thread that has not called has no result and no frame.
C9_IsolatedCalls ==
  \A t \in Threads :
     /\ pc[t] = "returned" => ret[t] = RunAlone(fn[t], arg[t])
     /\ pc[t] = "idle" => (ret[t] = 0 /\ stack[t] = <<>>)
     /\ pc[t] # "trapped" /\ ~ub[t]
     /\ fn[t] = "gauss_ref" => OwnRefFrames(t)
     /\ fn[t] = "gauss_closed" =>
          (Len(stack[t]) <= 1 /\ \A i \in 1..Len(stack[t]) : stack[t][i].n = arg[t])

C9_Witness ==
  /\ Returned(1, "gauss_ref") /\ arg[1] = 3 /\ ret[1] = 3
  /\ Returned(2, "gauss_closed") /\ arg[2] = 3 /\ ret[2] = 6

\* What holds all along a call gauss_ref(n), n >= 1: the frames hold n, n-1,
\* ... (each at least 1), never more than n of them after at most n-1
\* recursive calls; and on return exactly n-1 calls were made, the stack had
\* reached exactly n frames and is empty again.
RefCallBounded ==
  (fn[Main] = "gauss_ref" /\ arg[Main] >= 1) =>
     /\ pc[Main] # "trapped" /\ ~ub[Main]
     /\ OwnRefFrames(Main)
     /\ \A i \in 1..Len(stack[Main]) : stack[Main][i].n >= 1
     /\ calls[Main] <= arg[Main] - 1
     /\ maxDepth[Main] <= arg[Main]
     /\ pc[Main] = "running" => (maxDepth[Main] = calls[Main] + 1 /\ Len(stack[Main]) >= 1)
     /\ pc[Main] = "returned" =>
          /\ calls[Main] = arg[Main] - 1
          /\ maxDepth[Main] = arg[Main]
          /\ stack[Main] = <<>>

\* C10: for every n >= 1 gauss_ref(n) returns, after exactly n-1 recursive
\* calls on the arguments n-1, ..., 1, having held exactly n frames at most,
\* with the stack empty again.
C10_TerminatesAfterNCalls ==
  /\ []RefCallBounded
  /\ (fn[Main] = "gauss_ref" /\ arg[Main] >= 1) ~> (pc[Main] = "returned")

C10_Witness ==
  /\ Returned(Main, "gauss_ref") /\ arg[Main] = 5
  /\ calls[Main] = 4 /\ maxDepth[Main] = 5 /\ stack[Main] = <<>>

=============================================================================
